---------------------------- MODULE Spec2Model ----------------------------
(***************************************************************************)
(* Model of the three asset scripts of the repository:                     *)
(*   docs/implementation/cartoon_isometric_mockup.py   (the scene render)  *)
(*   scripts/generate_placeholder_sprites.py           (sprite atlases)    *)
(*   scripts/generate_ui_assets.py                     (UI assets)         *)
(*                                                                         *)
(* One run executes one script, statement by statement.  Every call that   *)
(* issues drawing primitives appends one record to drawSeq.                *)
(*                                                                         *)
(* Units.  Scene screen coordinates are held in quarter pixels, so that    *)
(* the factors 0.5 and 0.25 of world_to_iso are exact integers.  Atlas     *)
(* coordinates are whole pixels; a PIL primitive is held with its bounding *)
(* box <<x0, y0, x1, y1>>, both corners inclusive as PIL draws them.       *)
(***************************************************************************)
EXTENDS Integers, Sequences, FiniteSets, TLC

VARIABLES
    script,     \* which script this run executes
    pc,         \* the statement group the script is at
    i, j,       \* positions of the outer and inner loop of the current group
    lists,      \* the placement / category lists the script iterates over
    rng,        \* state of numpy's process-wide random generator
    drawSeq,    \* the draw calls issued so far, in order
    projLog,    \* the arguments of every world_to_iso call so far, in order
    canvases,   \* the canvases created so far, in order
    saved,      \* the files saved so far, in order
    out         \* the lines printed so far

vars == <<script, pc, i, j, lists, rng, drawSeq, projLog, canvases, saved, out>>

---------------------------------------------------------------------------
(* Bounds of the model. *)

\* np.random is never seeded: a run starts in any of NumSeeds generator states.
NumSeeds == 2
\* Size of the generator's abstract state space.
RngMod == 64
\* SpecInputs: how many entries beyond the script's own a list may carry.
MaxExtra == 1

---------------------------------------------------------------------------
(* Helpers. *)

\* Python's range(lo, hi, step) for step > 0, as a sequence.
Range(lo, hi, step) ==
    [k \in 1..((hi - lo + step - 1) \div step) |-> lo + (k - 1) * step]

\* Pixels to quarter pixels.
Q(n) == 4 * n

RECURSIVE Concat(_)
Concat(ss) == IF ss = <<>> THEN <<>> ELSE Head(ss) \o Concat(Tail(ss))

\* The generator's transition: one value drawn advances the state once.
NextRng(s) == (s * 5 + 3) % RngMod

RECURSIVE RngAt(_, _)
RngAt(s, k) == IF k = 0 THEN s ELSE RngAt(NextRng(s), k - 1)

\* np.random.randint(lo, hi) read off generator state s: a value in lo..hi-1.
RandInt(s, lo, hi) == lo + (s % (hi - lo))

\* np.random.random() > 0.5 read off generator state s.
RandomOverHalf(s) == 2 * s > RngMod

---------------------------------------------------------------------------
(* cartoon_isometric_mockup.py: projection and shape generators. *)

world_to_iso_swapped(x, y) == <<2 * (x + y) + Q(800), (x - y) + Q(200)>>

\* iso_x = (x - y) * 0.5 + 800, iso_y = (x + y) * 0.25 + 200, in quarter pixels.
world_to_iso(x, y) == <<2 * (x - y) + Q(800), (x + y) + Q(200)>>

\* One scene primitive: the patch / line / text class and its anchor point.
Prim(shape, px, py) == <<shape, px, py>>

draw_iso_tile(x, y, color, biome_type, s) ==
    LET p  == world_to_iso(x, y)
        ix == p[1]
        iy == p[2]
        tile == <<Prim("Polygon", ix, iy)>>
        grass == [k \in 1..3 |->
                    LET offset_x == RandInt(RngAt(s, 2 * (k - 1)), -10, 10)
                        offset_y == RandInt(RngAt(s, 2 * (k - 1) + 1), -5, 5)
                    IN  Prim("Line2D", ix + Q(offset_x), iy + Q(offset_y + 16))]
        sand == [k \in 1..5 |->
                    LET dx == RandInt(RngAt(s, 2 * (k - 1)), -15, 15)
                        dy == RandInt(RngAt(s, 2 * (k - 1) + 1), -5, 5)
                    IN  Prim("Circle", ix + Q(dx), iy + Q(dy + 16))]
    IN  [layer |-> "world", kind |-> "tile", tag |-> biome_type, color |-> color,
         x |-> x, y |-> y, sx |-> ix, sy |-> iy, proj |-> <<<<x, y>>>>,
         prims |-> tile \o (IF biome_type = "grass" THEN grass
                            ELSE IF biome_type = "desert" THEN sand ELSE <<>>),
         rand |-> IF biome_type = "grass" THEN 6
                  ELSE IF biome_type = "desert" THEN 10 ELSE 0]

draw_tree(x, y) ==
    LET p  == world_to_iso(x, y)
        ix == p[1]
        iy == p[2]
        offsets == <<40, 55, 65>>
    IN  [layer |-> "world", kind |-> "tree", tag |-> "tree", color |-> "#2d5016",
         x |-> x, y |-> y, sx |-> ix, sy |-> iy, proj |-> <<<<x, y>>>>,
         prims |-> <<Prim("FancyBboxPatch", ix - Q(8), iy)>>
                   \o [k \in 1..3 |-> Prim("Circle", ix, iy + Q(offsets[k]))],
         rand |-> 0]

draw_creature(x, y, species, emotion, action, s) ==
    LET p  == world_to_iso(x, y)
        ix == p[1]
        iy == p[2]
        body_color == IF species = "herbivore" THEN "#7cb342"
                      ELSE IF species = "carnivore" THEN "#e74c3c" ELSE "#8b6914"
        pupil_y == IF emotion = "happy" THEN iy + Q(52)
                   ELSE IF emotion = "scared" THEN iy + Q(50)
                   ELSE IF emotion = "sad" THEN iy + Q(49) ELSE iy + Q(52)
        base == <<Prim("Ellipse", ix, iy - Q(5)),
                  Prim("Circle", ix, iy + Q(20)),
                  Prim("Circle", ix, iy + Q(50)),
                  Prim("Circle", ix - Q(10), iy + Q(52)),
                  Prim("Circle", ix + Q(10), iy + Q(52))>>
        sparkles == IF emotion = "happy"
                    THEN <<Prim("Circle", ix - Q(10), iy + Q(55)),
                           Prim("Circle", ix + Q(10), iy + Q(55))>>
                    ELSE <<>>
        pupils == <<Prim("Circle", ix - Q(10), pupil_y),
                    Prim("Circle", ix + Q(10), pupil_y)>>
        face == IF emotion = "happy"
                THEN <<Prim("Arc", ix, iy + Q(45)),
                       Prim("Circle", ix - Q(20), iy + Q(45)),
                       Prim("Circle", ix + Q(20), iy + Q(45))>>
                ELSE IF emotion = "sad"
                THEN <<Prim("Arc", ix, iy + Q(40)),
                       Prim("Ellipse", ix - Q(15), iy + Q(45))>>
                ELSE IF emotion = "angry"
                THEN <<Prim("Line2D", ix - Q(15), iy + Q(60)),
                       Prim("Line2D", ix + Q(5), iy + Q(58))>>
                ELSE <<>>
        act == IF action = "eating"
               THEN <<Prim("Circle", ix, iy + Q(40))>>
               ELSE IF action = "sleeping"
               THEN <<Prim("Text", ix + Q(30), iy + Q(70)),
                      Prim("Text", ix + Q(40), iy + Q(80)),
                      Prim("Text", ix + Q(48), iy + Q(88))>>
               ELSE IF action = "talking"
               THEN <<Prim("FancyBboxPatch", ix + Q(40), iy + Q(60)),
                      Prim("Polygon", ix + Q(40), iy + Q(65)),
                      Prim("Text", ix + Q(65), iy + Q(75)),
                      Prim("Text", ix + Q(85), iy + Q(75))>>
               ELSE <<>>
        spotted == RandomOverHalf(s)
        spots == [k \in 1..3 |->
                    LET spot_x == ix + Q(RandInt(RngAt(s, 2 * k - 1), -15, 15))
                        spot_y == iy + Q(RandInt(RngAt(s, 2 * k), 10, 30))
                    IN  Prim("Circle", spot_x, spot_y)]
    IN  [layer |-> "world", kind |-> "creature", tag |-> species, color |-> body_color,
         x |-> x, y |-> y, sx |-> ix, sy |-> iy, proj |-> <<<<x, y>>>>,
         prims |-> base \o sparkles \o pupils \o face \o act
                   \o (IF spotted THEN spots ELSE <<>>),
         rand |-> IF spotted THEN 7 ELSE 1]

draw_resource(x, y, resource_type, s) ==
    LET p  == world_to_iso(x, y)
        ix == p[1]
        iy == p[2]
        berries == <<Prim("Circle", ix, iy + Q(10))>>
                   \o [k \in 1..5 |->
                         LET berry_x == ix + Q(RandInt(RngAt(s, 2 * (k - 1)), -10, 10))
                             berry_y == iy + Q(RandInt(RngAt(s, 2 * (k - 1) + 1), 5, 15))
                         IN  Prim("Circle", berry_x, berry_y)]
        water == <<Prim("Ellipse", ix, iy), Prim("Ellipse", ix, iy)>>
        cactus == <<Prim("FancyBboxPatch", ix - Q(10), iy)>>
                  \o Concat([k \in 1..8 |->
                        LET spine_y == iy + Q((k - 1) * 5)
                        IN  <<Prim("Line2D", ix - Q(12), spine_y),
                              Prim("Line2D", ix + Q(12), spine_y)>>])
    IN  [layer |-> "world", kind |-> "resource", tag |-> resource_type, color |-> "",
         x |-> x, y |-> y, sx |-> ix, sy |-> iy, proj |-> <<<<x, y>>>>,
         prims |-> IF resource_type = "berries" THEN berries
                   ELSE IF resource_type = "water" THEN water
                   ELSE IF resource_type = "cactus" THEN cactus ELSE <<>>,
         rand |-> IF resource_type = "berries" THEN 10 ELSE 0]

---------------------------------------------------------------------------
(* cartoon_isometric_mockup.py: the placement lists of the script. *)

tree_positions == <<<<200, 200>>, <<350, 150>>, <<450, 300>>, <<250, 400>>>>

creatures ==
    << <<300, 350, "herbivore", "happy", "eating">>,
       <<400, 400, "herbivore", "happy", "talking">>,
       <<500, 250, "carnivore", "angry", "None">>,
       <<150, 450, "omnivore", "sad", "None">>,
       <<350, 500, "herbivore", "happy", "sleeping">>,
       <<900, 300, "herbivore", "scared", "None">>,
       <<1000, 350, "carnivore", "happy", "None">> >>

\* The three draw_resource calls, in script order.
resources == <<<<250, 300, "berries">>, <<400, 200, "water">>, <<950, 400, "cactus">>>>

\* cos and sin of k * 45 degrees, in thousandths (np.cos / np.sin, math.cos / math.sin).
Cos8(k) == <<1000, 707, 0, -707, -1000, -707, 0, 707>>[(k % 8) + 1]
Sin8(k) == <<0, 707, 1000, 707, 0, -707, -1000, -707>>[(k % 8) + 1]

---------------------------------------------------------------------------
(* The steps of a script. *)

\* Issue one draw call: it joins the draw sequence, and the world_to_iso calls
\* and random values it made are accounted for.
Issue(d) ==
    /\ drawSeq' = Append(drawSeq, d)
    /\ projLog' = projLog \o d.proj
    /\ rng' = RngAt(rng, d.rand)

\* Advance a nested loop of no x ni iterations; leave for group next after the last.
LoopStep(no, ni, next) ==
    IF j < ni THEN /\ j' = j + 1
                   /\ UNCHANGED <<i, pc>>
    ELSE IF i < no THEN /\ i' = i + 1
                        /\ j' = 1
                        /\ UNCHANGED pc
    ELSE /\ pc' = next
         /\ i' = 1
         /\ j' = 1

\* Leave a straight-line statement group.
Goto(next) ==
    /\ pc' = next
    /\ UNCHANGED <<i, j>>

\* A draw call together with the world_to_iso calls made while issuing it.
WithProj(d) == [d EXCEPT !.proj = <<<<d.x, d.y>>>>]

ForestTileYMajor ==
    /\ script = "mockup" /\ pc = "forest"
    /\ LET xs == Range(100, 600, 64)
           ys == Range(100, 600, 64)
           x  == xs[j]
           y  == ys[i]
           shade == IF (x + y) % 128 = 0 THEN "#3a7d44" ELSE "#4a8b54"
       IN  /\ Issue(draw_iso_tile(x, y, shade, "grass", rng))
           /\ LoopStep(Len(ys), Len(xs), "desert")
    /\ UNCHANGED <<script, lists, canvases, saved, out>>

ForestTileFrom28 ==
    /\ script = "mockup" /\ pc = "forest"
    /\ LET xs == Range(28, 600, 64)
           ys == Range(100, 600, 64)
           x  == xs[i]
           y  == ys[j]
           shade == IF (x + y) % 128 = 0 THEN "#3a7d44" ELSE "#4a8b54"
       IN  /\ Issue(draw_iso_tile(x, y, shade, "grass", rng))
           /\ LoopStep(Len(xs), Len(ys), "desert")
    /\ UNCHANGED <<script, lists, canvases, saved, out>>

\* lines 59-62
ForestTile ==
    /\ script = "mockup" /\ pc = "forest"
    /\ LET xs == Range(100, 600, 64)
           ys == Range(100, 600, 64)
           x  == xs[i]
           y  == ys[j]
           shade == IF (x + y) % 128 = 0 THEN "#3a7d44" ELSE "#4a8b54"
       IN  /\ Issue(draw_iso_tile(x, y, shade, "grass", rng))
           /\ LoopStep(Len(xs), Len(ys), "desert")
    /\ UNCHANGED <<script, lists, canvases, saved, out>>

\* lines 65-68
DesertTile ==
    /\ script = "mockup" /\ pc = "desert"
    /\ LET xs == Range(700, 1200, 64)
           ys == Range(100, 600, 64)
           x  == xs[i]
           y  == ys[j]
           shade == IF (x + y) % 128 = 0 THEN "#f4d03f" ELSE "#fad643"
       IN  /\ Issue(draw_iso_tile(x, y, shade, "desert", rng))
           /\ LoopStep(Len(xs), Len(ys), "transition")
    /\ UNCHANGED <<script, lists, canvases, saved, out>>

\* lines 71-73
TransitionTile ==
    /\ script = "mockup" /\ pc = "transition"
    /\ LET xs == Range(600, 700, 64)
           ys == Range(100, 600, 64)
       IN  /\ Issue(draw_iso_tile(xs[i], ys[j], "#8b9556", "grass", rng))
           /\ LoopStep(Len(xs), Len(ys), "trees")
    /\ UNCHANGED <<script, lists, canvases, saved, out>>

\* lines 93-94
Tree ==
    /\ script = "mockup" /\ pc = "trees"
    /\ LET pos == lists.tree_positions[i]
       IN  Issue(draw_tree(pos[1], pos[2]))
    /\ LoopStep(Len(lists.tree_positions), 1, "creatures")
    /\ UNCHANGED <<script, lists, canvases, saved, out>>

\* lines 231-232; the returned (ix, iy) is discarded by the caller
Creature ==
    /\ script = "mockup" /\ pc = "creatures"
    /\ LET c == lists.creatures[i]
       IN  Issue(draw_creature(c[1], c[2], c[3], c[4], c[5], rng))
    /\ LoopStep(Len(lists.creatures), 1, "resources")
    /\ UNCHANGED <<script, lists, canvases, saved, out>>

\* lines 272-274
Resource ==
    /\ script = "mockup" /\ pc = "resources"
    /\ LET r == lists.resources[i]
       IN  Issue(draw_resource(r[1], r[2], r[3], rng))
    /\ LoopStep(Len(lists.resources), 1, "rain")
    /\ UNCHANGED <<script, lists, canvases, saved, out>>

\* A draw made directly by the script, outside the draw_* functions.
Direct(layer, kind, x, y, sx, sy, prims) ==
    [layer |-> layer, kind |-> kind, tag |-> kind, color |-> "",
     x |-> x, y |-> y, sx |-> sx, sy |-> sy, prims |-> prims,
     rand |-> 0, proj |-> <<>>]

\* lines 277-281: one raindrop, placed in screen space
Rain ==
    /\ script = "mockup" /\ pc = "rain"
    /\ LET rain_x == RandInt(rng, 100, 600)
           rain_y == RandInt(RngAt(rng, 1), 600, 900)
           d == Direct("weather", "rain", 0, 0, Q(rain_x), Q(rain_y),
                       <<Prim("Line2D", Q(rain_x), Q(rain_y))>>)
       IN  Issue([d EXCEPT !.rand = 2])
    /\ LoopStep(20, 1, "health_bar")
    /\ UNCHANGED <<script, lists, canvases, saved, out>>

\* lines 285-293: creature_x, creature_y = world_to_iso(400, 400)
HealthBar ==
    /\ script = "mockup" /\ pc = "health_bar"
    /\ LET p == world_to_iso(400, 400)
           creature_x == p[1]
           creature_y == p[2]
           d == Direct("ui", "health_bar", 400, 400, creature_x, creature_y,
                       <<Prim("FancyBboxPatch", creature_x - Q(20), creature_y + Q(80)),
                         Prim("FancyBboxPatch", creature_x - Q(20), creature_y + Q(80))>>)
       IN  Issue(WithProj(d))
    /\ Goto("need_icon")
    /\ UNCHANGED <<script, lists, canvases, saved, out>>

\* lines 296-299: reuses creature_x, creature_y of line 285
NeedIcon ==
    /\ script = "mockup" /\ pc = "need_icon"
    /\ LET bar == drawSeq[Len(drawSeq)]
           creature_x == bar.sx
           creature_y == bar.sy
       IN  Issue(Direct("ui", "need_icon", 400, 400, creature_x, creature_y,
                        <<Prim("Circle", creature_x - Q(30), creature_y + Q(70)),
                          Prim("Text", creature_x - Q(30), creature_y + Q(70))>>))
    /\ Goto("hearts")
    /\ UNCHANGED <<script, lists, canvases, saved, out>>

\* lines 301-307: "Particle effects": heart_x, heart_y = world_to_iso(400, 400)
Hearts ==
    /\ script = "mockup" /\ pc = "hearts"
    /\ LET p == world_to_iso(400, 400)
           heart_x == p[1]
           heart_y == p[2]
           d == Direct("particle", "hearts", 400, 400, heart_x, heart_y,
                       [k \in 1..3 |->
                          Prim("Text", heart_x + Q(10), heart_y + Q(90 + (k - 1) * 10))])
       IN  Issue(WithProj(d))
    /\ Goto("sun")
    /\ UNCHANGED <<script, lists, canvases, saved, out>>

\* lines 310-318: the sun and its eight rays
Sun ==
    /\ script = "mockup" /\ pc = "sun"
    /\ Issue(Direct("ui", "sun", 0, 0, Q(1400), Q(850),
                    <<Prim("Circle", Q(1400), Q(850))>>
                    \o [k \in 1..8 |->
                          Prim("Line2D", Q(1400) + (Q(60) * Cos8(k - 1)) \div 1000,
                                         Q(850) + (Q(60) * Sin8(k - 1)) \div 1000)]))
    /\ Goto("panel")
    /\ UNCHANGED <<script, lists, canvases, saved, out>>

\* lines 321-335: the info panel and its eight lines of text
Panel ==
    /\ script = "mockup" /\ pc = "panel"
    /\ LET ys == <<220, 190, 170, 150, 130, 110, 90, 70>>
       IN  Issue(Direct("ui", "panel", 0, 0, Q(1200), Q(50),
                        <<Prim("FancyBboxPatch", Q(1200), Q(50))>>
                        \o [k \in 1..8 |-> Prim("Text", Q(1220), Q(ys[k]))]))
    /\ Goto("title")
    /\ UNCHANGED <<script, lists, canvases, saved, out>>

\* lines 338-340
Title ==
    /\ script = "mockup" /\ pc = "title"
    /\ Issue(Direct("ui", "title", 0, 0, Q(800), Q(950),
                    <<Prim("Text", Q(800), Q(950))>>))
    /\ Goto("minimap")
    /\ UNCHANGED <<script, lists, canvases, saved, out>>

\* lines 343-356
Minimap ==
    /\ script = "mockup" /\ pc = "minimap"
    /\ Issue(Direct("ui", "minimap", 0, 0, Q(1400), Q(700),
                    <<Prim("FancyBboxPatch", Q(1400), Q(700)),
                      Prim("Rectangle", Q(1410), Q(750)),
                      Prim("Rectangle", Q(1480), Q(750)),
                      Prim("Rectangle", Q(1450), Q(760))>>))
    /\ Goto("savefig")
    /\ UNCHANGED <<script, lists, canvases, saved, out>>

\* lines 358-363
SaveFig ==
    /\ script = "mockup" /\ pc = "savefig"
    /\ saved' = Append(saved, "cartoon_isometric_mockup.png")
    /\ out' = Append(out, "Mockup saved to cartoon_isometric_mockup.png")
    /\ Goto("done")
    /\ UNCHANGED <<script, lists, rng, drawSeq, projLog, canvases>>

---------------------------------------------------------------------------
(* PIL primitives, each with the bounding box of the pixels it may touch. *)

Min(S) == CHOOSE m \in S : \A n \in S : m <= n
Max(S) == CHOOSE m \in S : \A n \in S : m >= n

\* A value given in thousandths, rounded down and up to whole pixels.
Floor(v) == v \div 1000
Ceil(v) == -((-v) \div 1000)

\* draw.ellipse / draw.arc / draw.rectangle / draw.rounded_rectangle((x0, y0, x1, y1))
Box(shape, x0, y0, x1, y1) == [shape |-> shape, bbox |-> <<x0, y0, x1, y1>>]

\* draw.polygon(points)
PolyBox(points) ==
    LET xs == {points[k][1] : k \in 1..Len(points)}
        ys == {points[k][2] : k \in 1..Len(points)}
    IN  [shape |-> "polygon", bbox |-> <<Min(xs), Min(ys), Max(xs), Max(ys)>>]

\* draw.line((x0, y0, x1, y1), width=w): the segment, widened by w // 2 on each side
LineBox(x0, y0, x1, y1, w) ==
    [shape |-> "line",
     bbox |-> <<Min({x0, x1}) - w \div 2, Min({y0, y1}) - w \div 2,
                Max({x0, x1}) + w \div 2, Max({y0, y1}) + w \div 2>>]

\* Image.new('RGBA', (w, h))
NewCanvas(name, w, h) == [name |-> name, w |-> w, h |-> h]

\* The draw calls made for one atlas cell or one stand-alone image.
Cell(layer, canvas, tag, cat, var, x0, y0, cw, ch, prims) ==
    [layer |-> layer, kind |-> canvas, tag |-> tag, cat |-> cat, var |-> var,
     x0 |-> x0, y0 |-> y0, cw |-> cw, ch |-> ch, prims |-> prims,
     rand |-> 0, proj |-> <<>>]

---------------------------------------------------------------------------
(* generate_placeholder_sprites.py *)

animations ==
    << <<"Idle", <<255, 200, 200>>>>, <<"Walk", <<200, 255, 200>>>>,
       <<"Run", <<200, 200, 255>>>>, <<"Eat", <<255, 255, 200>>>>,
       <<"Sleep", <<200, 200, 200>>>>, <<"Talk", <<255, 200, 255>>>>,
       <<"Attack", <<255, 100, 100>>>>, <<"Death", <<100, 100, 100>>>> >>

biomes ==
    << <<"Forest", <<34, 139, 34>>>>, <<"Desert", <<237, 201, 175>>>>,
       <<"Grassland", <<124, 252, 0>>>>, <<"Tundra", <<230, 230, 250>>>>,
       <<"Ocean", <<0, 119, 190>>>> >>

particle_sprites ==
    << <<"heart", <<255, 100, 100>>>>, <<"zzz", <<100, 100, 255>>>>,
       <<"sparkle", <<255, 255, 100>>>>, <<"sweat", <<100, 200, 255>>>>,
       <<"exclamation", <<255, 200, 0>>>>, <<"question", <<100, 100, 255>>>> >>

CreatureCanvasShort == NewCanvas("creature_atlas", 384, 336)

\* line 10
CreatureCanvas == NewCanvas("creature_atlas", 384, 384)

TerrainCanvasTransposed == NewCanvas("terrain_atlas", 256, 160)

\* line 55
TerrainCanvas == NewCanvas("terrain_atlas", 320, 128)

creature_bounce_low(x_offset, y_offset) ==
    Box("ellipse", x_offset + 20, y_offset + 43, x_offset + 28, y_offset + 51)

\* lines 45-46: the Walk animation's bounce ellipse
creature_bounce(x_offset, y_offset) ==
    Box("ellipse", x_offset + 20, y_offset + 35, x_offset + 28, y_offset + 43)

creature_origin_packed(anim_idx, frame) == <<frame * 24, anim_idx * 48>>

creature_origin_transposed(anim_idx, frame) == <<anim_idx * 48, frame * 48>>

\* lines 27, 31: <<x_offset, y_offset>> of the cell of frame `frame` of animation anim_idx
creature_origin(anim_idx, frame) == <<frame * 48, anim_idx * 48>>

\* lines 25-46: the body of the frame loop
creature_cell(anim_idx, anim_name, frame) ==
    LET x_offset == creature_origin(anim_idx, frame)[1]
        y_offset == creature_origin(anim_idx, frame)[2]
        eye_y == y_offset + 18
        body == <<Box("ellipse", x_offset + 8, y_offset + 8, x_offset + 40, y_offset + 40),
                  Box("ellipse", x_offset + 14, eye_y, x_offset + 18, eye_y + 4),
                  Box("ellipse", x_offset + 30, eye_y, x_offset + 34, eye_y + 4)>>
        bounce == IF anim_name = "Walk" /\ frame % 2 = 0
                  THEN <<creature_bounce(x_offset, y_offset)>>
                  ELSE <<>>
    IN  Cell("cell", "creature_atlas", anim_name, anim_idx, frame,
             x_offset, y_offset, 48, 48, body \o bounce)

\* lines 66-93: the body of the variant loop
terrain_cell(biome_idx, biome_name, variant) ==
    LET x_offset == biome_idx * 64
        y_offset == variant * 32
        points == <<<<x_offset + 32, y_offset + 0>>, <<x_offset + 63, y_offset + 16>>,
                    <<x_offset + 32, y_offset + 31>>, <<x_offset + 0, y_offset + 16>>>>
        dot == IF biome_name = "Forest"
               THEN <<Box("ellipse", x_offset + 28, y_offset + 12,
                                     x_offset + 36, y_offset + 20)>>
               ELSE <<>>
    IN  Cell("cell", "terrain_atlas", biome_name, biome_idx, variant,
             x_offset, y_offset, 64, 32, <<PolyBox(points)>> \o dot)

\* lines 109-127: one 24x24 particle image
particle_sprite(name) ==
    LET heart == <<Box("ellipse", 4, 6, 12, 14), Box("ellipse", 12, 6, 20, 14),
                   PolyBox(<<<<12, 18>>, <<4, 10>>, <<20, 10>>>>)>>
        sparkle == <<LineBox(12, 2, 12, 22, 3), LineBox(2, 12, 22, 12, 3),
                     LineBox(5, 5, 19, 19, 2), LineBox(19, 5, 5, 19, 2)>>
        circle == <<Box("ellipse", 2, 2, 22, 22)>>
    IN  Cell("image", name, name, 0, 0, 0, 0, 24, 24,
             IF name = "heart" THEN heart
             ELSE IF name = "sparkle" THEN sparkle ELSE circle)

\* lines 10-11
CreatureNew ==
    /\ script = "sprites" /\ pc = "creature_new"
    /\ canvases' = Append(canvases, CreatureCanvas)
    /\ Goto("creature_cells")
    /\ UNCHANGED <<script, lists, rng, drawSeq, projLog, saved, out>>

\* lines 25-46
CreatureCell ==
    /\ script = "sprites" /\ pc = "creature_cells"
    /\ LET a == lists.animations[i]
       IN  Issue(creature_cell(i - 1, a[1], j - 1))
    /\ LoopStep(Len(lists.animations), 8, "creature_save")
    /\ UNCHANGED <<script, lists, canvases, saved, out>>

CreatureSaveSkipped ==
    /\ script = "sprites" /\ pc = "creature_save"
    /\ out' = Append(out, "Created creature atlas")
    /\ Goto("terrain_new")
    /\ UNCHANGED <<script, lists, rng, drawSeq, projLog, canvases, saved>>

\* lines 48-49
CreatureSave ==
    /\ script = "sprites" /\ pc = "creature_save"
    /\ saved' = Append(saved, "creature_atlas")
    /\ out' = Append(out, "Created creature atlas")
    /\ Goto("terrain_new")
    /\ UNCHANGED <<script, lists, rng, drawSeq, projLog, canvases>>

\* lines 55-56
TerrainNew ==
    /\ script = "sprites" /\ pc = "terrain_new"
    /\ canvases' = Append(canvases, TerrainCanvas)
    /\ Goto("terrain_cells")
    /\ UNCHANGED <<script, lists, rng, drawSeq, projLog, saved, out>>

\* lines 66-93
TerrainCell ==
    /\ script = "sprites" /\ pc = "terrain_cells"
    /\ LET b == lists.biomes[i]
       IN  Issue(terrain_cell(i - 1, b[1], j - 1))
    /\ LoopStep(Len(lists.biomes), 4, "terrain_save")
    /\ UNCHANGED <<script, lists, canvases, saved, out>>

\* lines 95-96
TerrainSave ==
    /\ script = "sprites" /\ pc = "terrain_save"
    /\ saved' = Append(saved, "terrain_atlas")
    /\ out' = Append(out, "Created terrain atlas")
    /\ Goto("particle_sprites")
    /\ UNCHANGED <<script, lists, rng, drawSeq, projLog, canvases>>

\* lines 109-129: new image, shape, save
ParticleSprite ==
    /\ script = "sprites" /\ pc = "particle_sprites"
    /\ LET name == lists.particle_sprites[i][1]
       IN  /\ canvases' = Append(canvases, NewCanvas(name, 24, 24))
           /\ Issue(particle_sprite(name))
           /\ saved' = Append(saved, name)
    /\ LoopStep(Len(lists.particle_sprites), 1, "sprites_print")
    /\ UNCHANGED <<script, lists, out>>

\* lines 131, 144-146
SpritesPrint ==
    /\ script = "sprites" /\ pc = "sprites_print"
    /\ out' = out \o <<"Created particle sprites", "Placeholder sprites created successfully!">>
    /\ Goto("done")
    /\ UNCHANGED <<script, lists, rng, drawSeq, projLog, canvases, saved>>

---------------------------------------------------------------------------
(* generate_ui_assets.py *)

bubbles ==
    << <<"speech_bubble", <<255, 255, 255>>, "rounded">>,
       <<"thought_bubble", <<240, 240, 255>>, "cloud">>,
       <<"shout_bubble", <<255, 240, 240>>, "jagged">> >>

emojis ==
    << <<"happy", <<255, 220, 0>>>>, <<"sad", <<100, 150, 255>>>>,
       <<"angry", <<255, 100, 100>>>>, <<"neutral", <<200, 200, 200>>>>,
       <<"sleepy", <<180, 180, 255>>>>, <<"hungry", <<255, 200, 100>>>>,
       <<"love", <<255, 150, 200>>>>, <<"sick", <<150, 255, 150>>>>,
       <<"eating", <<255, 180, 100>>>>, <<"drinking", <<100, 200, 255>>>>,
       <<"working", <<200, 150, 100>>>>, <<"playing", <<255, 100, 255>>>>,
       <<"surprised", <<255, 255, 100>>>>, <<"confused", <<200, 100, 255>>>>,
       <<"excited", <<255, 200, 0>>>>, <<"tired", <<150, 150, 150>>>> >>

icons ==
    << <<"hunger", <<255, 150, 50>>, "food">>,
       <<"thirst", <<100, 200, 255>>, "droplet">>,
       <<"energy", <<255, 255, 100>>, "lightning">>,
       <<"social", <<255, 100, 255>>, "people">>,
       <<"sleeping", <<150, 150, 255>>, "moon">>,
       <<"eating", <<200, 150, 100>>, "food">>,
       <<"talking", <<100, 255, 100>>, "speech">>,
       <<"working", <<255, 200, 100>>, "gear">>,
       <<"alert", <<255, 100, 100>>, "exclamation">> >>

particles ==
    << <<"spark", <<255, 255, 100>>>>, <<"smoke", <<150, 150, 150>>>>,
       <<"bubble", <<100, 200, 255>>>>, <<"leaf", <<100, 200, 50>>>>,
       <<"star", <<255, 255, 255>>>>, <<"heart", <<255, 100, 150>>>>,
       <<"music", <<200, 100, 255>>>>, <<"dust", <<200, 180, 150>>>>,
       <<"poison", <<100, 255, 100>>>>, <<"ice", <<200, 230, 255>>>>,
       <<"fire", <<255, 150, 50>>>>, <<"electric", <<255, 255, 150>>>>,
       <<"sweat", <<150, 200, 255>>>>, <<"anger", <<255, 100, 100>>>>,
       <<"confetti", <<255, 100, 255>>>>, <<"glow", <<255, 255, 200>>>> >>

\* cos and sin of k * 36 - 90 degrees, in thousandths (the star's ten corners).
Cos10(k) == <<0, 588, 951, 951, 588, 0, -588, -951, -951, -588>>[(k % 10) + 1]
Sin10(k) == <<-1000, -809, -309, 309, 809, 1000, 809, 309, -309, -809>>[(k % 10) + 1]

\* A point (x + r*c/1000, y + r*s/1000) whose coordinates are not whole pixels,
\* held as the two whole-pixel corners that enclose it.
Around(x, y, r, c, s) ==
    <<<<x + Floor(r * c), y + Floor(r * s)>>, <<x + Ceil(r * c), y + Ceil(r * s)>>>>

\* lines 42-81: the shapes of one 128x96 bubble; the jagged outline's twenty
\* corners lie on radii 45 and 35 about (64, 40), flattened by 0.7 vertically
speech_bubble(name, style) ==
    LET puffs == <<<<20, 20, 15>>, <<30, 15, 18>>, <<50, 12, 20>>, <<70, 15, 18>>,
                   <<90, 20, 15>>, <<100, 30, 15>>, <<95, 45, 15>>, <<85, 55, 15>>,
                   <<65, 60, 15>>, <<45, 60, 15>>, <<25, 55, 15>>, <<15, 45, 15>>>>
        sizes == <<8, 6, 4>>
        rounded == <<Box("rounded_rectangle", 10, 10, 118, 70),
                     PolyBox(<<<<30, 65>>, <<40, 65>>, <<25, 85>>>>)>>
        cloud == <<Box("ellipse", 15, 15, 113, 65)>>
                 \o [k \in 1..12 |->
                       LET x == puffs[k][1]
                           y == puffs[k][2]
                           size == puffs[k][3]
                       IN  Box("ellipse", x - size \div 2, y - size \div 2,
                                          x + size \div 2, y + size \div 2)]
                 \o [k \in 1..3 |->
                       LET y == 75 + (k - 1) * 10
                           size == sizes[k]
                       IN  Box("ellipse", 30 - size \div 2, y - size \div 2,
                                          30 + size \div 2, y + size \div 2)]
        jagged == <<PolyBox(<<<<64 - 45, 40 - Ceil(45 * 700)>>,
                              <<64 + 45, 40 + Ceil(45 * 700)>>>>),
                    PolyBox(<<<<50, 60>>, <<60, 60>>, <<45, 85>>>>)>>
    IN  Cell("image", name, style, 0, 0, 0, 0, 128, 96,
             IF style = "rounded" THEN rounded
             ELSE IF style = "cloud" THEN cloud
             ELSE IF style = "jagged" THEN jagged ELSE <<>>)

grid_cell_wrapped(idx) == <<idx \div 4, idx % 3>>

\* lines 117-118, 249-250: <<row, col>> of list entry idx (0-based) in the 4 x 4 grid
grid_cell(idx) == <<idx \div 4, idx % 4>>

\* lines 116-145: the body of the emoji loop
emoji_cell(idx, name) ==
    LET row == grid_cell(idx)[1]
        col == grid_cell(idx)[2]
        x == col * 32
        y == row * 32
        face == <<Box("ellipse", x + 4, y + 4, x + 28, y + 28)>>
        eyes == IF name = "sleepy"
                THEN <<LineBox(x + 10, y + 12, x + 14, y + 12, 2),
                       LineBox(x + 18, y + 12, x + 22, y + 12, 2)>>
                ELSE IF name \in {"happy", "excited"}
                THEN <<Box("arc", x + 9, y + 10, x + 15, y + 16),
                       Box("arc", x + 17, y + 10, x + 23, y + 16)>>
                ELSE <<Box("ellipse", x + 10, y + 11, x + 14, y + 15),
                       Box("ellipse", x + 18, y + 11, x + 22, y + 15)>>
        mouth == IF name = "happy"
                 THEN <<Box("arc", x + 10, y + 16, x + 22, y + 24)>>
                 ELSE IF name = "sad"
                 THEN <<Box("arc", x + 10, y + 20, x + 22, y + 28)>>
                 ELSE IF name = "angry"
                 THEN <<LineBox(x + 10, y + 20, x + 22, y + 20, 2)>>
                 ELSE IF name = "surprised"
                 THEN <<Box("ellipse", x + 14, y + 18, x + 18, y + 24)>>
                 ELSE <<>>
    IN  Cell("cell", "emoji_atlas", name, row, col, x, y, 32, 32,
             face \o eyes \o mouth)

\* lines 166-218: the shapes of one 32x32 icon
ui_icon(name, icon_type) ==
    LET food == <<Box("ellipse", 8, 10, 24, 26), Box("rectangle", 14, 6, 18, 12)>>
        droplet == <<PolyBox(<<<<16, 6>>, <<24, 18>>, <<16, 26>>, <<8, 18>>>>)>>
        lightning == <<PolyBox(<<<<12, 6>>, <<20, 14>>, <<16, 14>>,
                                 <<20, 26>>, <<12, 18>>, <<16, 18>>>>)>>
        people == <<Box("ellipse", 6, 8, 12, 14), Box("ellipse", 20, 8, 26, 14),
                    Box("rectangle", 7, 14, 11, 24), Box("rectangle", 21, 14, 25, 24)>>
        moon == <<Box("ellipse", 8, 8, 24, 24), Box("ellipse", 12, 6, 28, 22)>>
        speech == <<Box("ellipse", 6, 6, 26, 20),
                    PolyBox(<<<<12, 18>>, <<16, 18>>, <<10, 26>>>>)>>
        gear == <<Box("ellipse", 10, 10, 22, 22)>>
                \o [k \in 1..8 |->
                      Box("rectangle",
                          16 + Floor(6 * Cos8(k - 1)) - 2, 16 + Floor(6 * Sin8(k - 1)) - 2,
                          16 + Ceil(10 * Cos8(k - 1)) + 2, 16 + Ceil(10 * Sin8(k - 1)) + 2)]
        exclamation == <<Box("rectangle", 14, 6, 18, 20), Box("ellipse", 14, 24, 18, 28)>>
    IN  Cell("image", name, icon_type, 0, 0, 0, 0, 32, 32,
             IF icon_type = "food" THEN food
             ELSE IF icon_type = "droplet" THEN droplet
             ELSE IF icon_type = "lightning" THEN lightning
             ELSE IF icon_type = "people" THEN people
             ELSE IF icon_type = "moon" THEN moon
             ELSE IF icon_type = "speech" THEN speech
             ELSE IF icon_type = "gear" THEN gear
             ELSE IF icon_type = "exclamation" THEN exclamation
             ELSE <<>>)

\* lines 253-301: the body of the particle loop; (x, y) is the cell's centre
particle_cell(idx, name) ==
    LET row == grid_cell(idx)[1]
        col == grid_cell(idx)[2]
        x == col * 32 + 16
        y == row * 32 + 16
        spark == [k \in 1..8 |->
                    LET tip == Around(x, y, 12, Cos8(k - 1), Sin8(k - 1))
                        b == PolyBox(<<<<x, y>>>> \o tip).bbox
                    IN  [shape |-> "line",
                         bbox |-> <<b[1] - 1, b[2] - 1, b[3] + 1, b[4] + 1>>]]
        puffs == <<<<0, 0, 12>>, <<-5, -5, 8>>, <<5, -5, 8>>, <<-5, 5, 8>>, <<5, 5, 8>>>>
        cloud == [k \in 1..5 |->
                    LET dx == puffs[k][1]
                        dy == puffs[k][2]
                        size == puffs[k][3]
                    IN  Box("ellipse", x + dx - size \div 2, y + dy - size \div 2,
                                       x + dx + size \div 2, y + dy + size \div 2)]
        bubble == <<Box("ellipse", x - 10, y - 10, x + 10, y + 10),
                    Box("ellipse", x - 5, y - 8, x - 2, y - 5)>>
        star == <<PolyBox(Concat([k \in 1..10 |->
                    Around(x, y, IF (k - 1) % 2 = 0 THEN 10 ELSE 5,
                           Cos10(k - 1), Sin10(k - 1))]))>>
        heart == <<Box("ellipse", x - 8, y - 6, x - 2, y + 2),
                   Box("ellipse", x + 2, y - 6, x + 8, y + 2),
                   PolyBox(<<<<x, y + 8>>, <<x - 8, y>>, <<x + 8, y>>>>)>>
        default == <<Box("ellipse", x - 8, y - 8, x + 8, y + 8)>>
    IN  Cell("cell", "particle_atlas", name, row, col, col * 32, row * 32, 32, 32,
             IF name = "spark" THEN spark
             ELSE IF name \in {"smoke", "dust"} THEN cloud
             ELSE IF name = "bubble" THEN bubble
             ELSE IF name = "star" THEN star
             ELSE IF name = "heart" THEN heart
             ELSE default)


\* lines 10-11: the background has no drawing
HealthBarBg ==
    /\ script = "ui" /\ pc = "health_bar_bg"
    /\ canvases' = Append(canvases, NewCanvas("health_bar_bg", 100, 20))
    /\ saved' = Append(saved, "health_bar_bg")
    /\ Goto("health_bar_fill")
    /\ UNCHANGED <<script, lists, rng, drawSeq, projLog, out>>

\* lines 14-20: one vertical line per column
HealthBarFill ==
    /\ script = "ui" /\ pc = "health_bar_fill"
    /\ canvases' = Append(canvases, NewCanvas("health_bar_fill", 100, 20))
    /\ Issue(Cell("image", "health_bar_fill", "fill", 0, 0, 0, 0, 100, 20,
                  [k \in 1..100 |-> LineBox(k - 1, 0, k - 1, 20, 1)]))
    /\ saved' = Append(saved, "health_bar_fill")
    /\ Goto("health_bar_frame")
    /\ UNCHANGED <<script, lists, out>>

\* lines 23-28
HealthBarFrame ==
    /\ script = "ui" /\ pc = "health_bar_frame"
    /\ canvases' = Append(canvases, NewCanvas("health_bar_frame", 100, 20))
    /\ Issue(Cell("image", "health_bar_frame", "frame", 0, 0, 0, 0, 100, 20,
                  <<Box("rectangle", 0, 0, 99, 19)>>))
    /\ saved' = Append(saved, "health_bar_frame")
    /\ out' = Append(out, "Created health bar components")
    /\ pc' = "speech_bubbles"
    /\ i' = 1
    /\ j' = 1
    /\ UNCHANGED <<script, lists>>

\* lines 38-83: new image, shapes, save
SpeechBubble ==
    /\ script = "ui" /\ pc = "speech_bubbles"
    /\ LET b == lists.bubbles[i]
       IN  /\ canvases' = Append(canvases, NewCanvas(b[1], 128, 96))
           /\ Issue(speech_bubble(b[1], b[3]))
           /\ saved' = Append(saved, b[1])
    /\ IF i < Len(lists.bubbles)
       THEN out' = out
       ELSE out' = Append(out, "Created speech bubbles")
    /\ LoopStep(Len(lists.bubbles), 1, "emoji_new")
    /\ UNCHANGED <<script, lists>>

\* lines 90-91
EmojiNew ==
    /\ script = "ui" /\ pc = "emoji_new"
    /\ canvases' = Append(canvases, NewCanvas("emoji_atlas", 128, 128))
    /\ Goto("emoji_cells")
    /\ UNCHANGED <<script, lists, rng, drawSeq, projLog, saved, out>>

\* lines 116-145
EmojiCell ==
    /\ script = "ui" /\ pc = "emoji_cells"
    /\ Issue(emoji_cell(i - 1, lists.emojis[i][1]))
    /\ LoopStep(Len(lists.emojis), 1, "emoji_save")
    /\ UNCHANGED <<script, lists, canvases, saved, out>>

\* lines 147-148
EmojiSave ==
    /\ script = "ui" /\ pc = "emoji_save"
    /\ saved' = Append(saved, "emoji_atlas")
    /\ out' = Append(out, "Created emoji atlas")
    /\ Goto("icons")
    /\ UNCHANGED <<script, lists, rng, drawSeq, projLog, canvases>>

\* lines 166-222: new image, shapes, save
UiIcon ==
    /\ script = "ui" /\ pc = "icons"
    /\ LET c == lists.icons[i]
       IN  /\ canvases' = Append(canvases, NewCanvas(c[1], 32, 32))
           /\ Issue(ui_icon(c[1], c[3]))
           /\ saved' = Append(saved, c[1])
    /\ IF i < Len(lists.icons)
       THEN out' = out
       ELSE out' = Append(out, "Created UI icons")
    /\ LoopStep(Len(lists.icons), 1, "particle_new")
    /\ UNCHANGED <<script, lists>>

\* lines 227-228
ParticleNew ==
    /\ script = "ui" /\ pc = "particle_new"
    /\ canvases' = Append(canvases, NewCanvas("particle_atlas", 128, 128))
    /\ Goto("particle_cells")
    /\ UNCHANGED <<script, lists, rng, drawSeq, projLog, saved, out>>

\* lines 253-301
ParticleCell ==
    /\ script = "ui" /\ pc = "particle_cells"
    /\ Issue(particle_cell(i - 1, lists.particles[i][1]))
    /\ LoopStep(Len(lists.particles), 1, "particle_save")
    /\ UNCHANGED <<script, lists, canvases, saved, out>>

\* lines 303-304, 319-321
ParticleSave ==
    /\ script = "ui" /\ pc = "particle_save"
    /\ saved' = Append(saved, "particle_atlas")
    /\ out' = out \o <<"Created particle atlas", "UI assets created successfully!">>
    /\ Goto("done")
    /\ UNCHANGED <<script, lists, rng, drawSeq, projLog, canvases>>

---------------------------------------------------------------------------
(* The run. *)

\* The lists exactly as the scripts spell them.
ScriptLists ==
    [tree_positions |-> tree_positions, creatures |-> creatures,
     resources |-> resources, animations |-> animations, biomes |-> biomes,
     particle_sprites |-> particle_sprites, bubbles |-> bubbles,
     emojis |-> emojis, icons |-> icons, particles |-> particles]

\* k copies of one entry.
Copies(k, e) == [n \in 1..k |-> e]

\* The lists with k more entries each; the added entries carry tags that no
\* branch of the shape code names.
ExtendedLists(k) ==
    [tree_positions |-> tree_positions,
     creatures |-> creatures \o Copies(k, <<600, 350, "insectivore", "calm", "None">>),
     resources |-> resources \o Copies(k, <<600, 300, "mushroom">>),
     animations |-> animations \o Copies(k, <<"Jump", <<0, 0, 0>>>>),
     biomes |-> biomes \o Copies(k, <<"Swamp", <<0, 0, 0>>>>),
     particle_sprites |-> particle_sprites,
     bubbles |-> bubbles,
     emojis |-> emojis \o Copies(k, <<"bored", <<0, 0, 0>>>>),
     icons |-> icons \o Copies(k, <<"danger", <<0, 0, 0>>, "skull">>),
     particles |-> particles \o Copies(k, <<"rainbow", <<0, 0, 0>>>>)]

FirstGroup(sc) ==
    IF sc = "mockup" THEN "forest"
    ELSE IF sc = "sprites" THEN "creature_new" ELSE "health_bar_bg"

\* mockup lines 7-18: the figure exists before the first draw
InitWith(ls) ==
    /\ script \in {"mockup", "sprites", "ui"}
    /\ pc = FirstGroup(script)
    /\ i = 1
    /\ j = 1
    /\ lists = ls
    /\ rng \in (IF script = "mockup" THEN 0..(NumSeeds - 1) ELSE {0})
    /\ drawSeq = <<>>
    /\ projLog = <<>>
    /\ canvases = (IF script = "mockup" THEN <<NewCanvas("fig", 1600, 1000)>> ELSE <<>>)
    /\ saved = <<>>
    /\ out = <<>>

Init == InitWith(ScriptLists)

InitInputs == \E k \in 0..MaxExtra : InitWith(ExtendedLists(k))

\* The save statements after which a generator returns.
SaveGroups == {"savefig", "creature_save", "terrain_save", "emoji_save", "particle_save"}

\* A save raises (the destination cannot be written).  No script catches
\* anything: the exception leaves the generator and main(), and the run ends.
SaveFails ==
    /\ pc \in SaveGroups
    /\ pc' = "aborted"
    /\ out' = Append(out, "Traceback (most recent call last)")
    /\ UNCHANGED <<script, i, j, lists, rng, drawSeq, projLog, canvases, saved>>

Next ==
    \/ ForestTile \/ DesertTile \/ TransitionTile
    \/ Tree \/ Creature \/ Resource \/ Rain
    \/ HealthBar \/ NeedIcon \/ Hearts \/ Sun \/ Panel \/ Title \/ Minimap \/ SaveFig
    \/ CreatureNew \/ CreatureCell \/ CreatureSave
    \/ TerrainNew \/ TerrainCell \/ TerrainSave
    \/ ParticleSprite \/ SpritesPrint
    \/ HealthBarBg \/ HealthBarFill \/ HealthBarFrame \/ SpeechBubble
    \/ EmojiNew \/ EmojiCell \/ EmojiSave \/ UiIcon
    \/ ParticleNew \/ ParticleCell \/ ParticleSave
    \/ SaveFails

\* The scripts as written.
Spec == Init /\ [][Next]_vars

\* The scripts run over lists that may carry entries beyond the scripts' own.
SpecInputs == InitInputs /\ [][Next]_vars

---------------------------------------------------------------------------
(* Properties of the scene render. *)

Drawn == 1..Len(drawSeq)

DepthKey(d) == d.x + d.y

\* C1: in the scene render, a world entity (tile, tree, creature, resource) with
\* a smaller depth key x + y is drawn strictly before every world entity with a
\* larger one.
C1_DepthOrder ==
    \A a, b \in Drawn :
        (/\ drawSeq[a].layer = "world"
         /\ drawSeq[b].layer = "world"
         /\ DepthKey(drawSeq[a]) < DepthKey(drawSeq[b])) => a < b

\* C2: in the scene render, once a UI overlay has been drawn, no world entity,
\* weather or particle primitive is drawn afterwards: every UI draw follows
\* every world-entity and particle draw.
C2_OverlaysLast ==
    \A a, b \in Drawn :
        (/\ drawSeq[a].layer = "ui"
         /\ drawSeq[b].layer \in {"world", "weather", "particle"}) => b < a

---------------------------------------------------------------------------
(* Properties of the atlas generators. *)

Atlases == {"creature_atlas", "terrain_atlas", "emoji_atlas", "particle_atlas"}

\* The cells drawn so far on atlas `name`, as positions of drawSeq.
CellsOf(name) == {k \in Drawn : drawSeq[k].layer = "cell" /\ drawSeq[k].kind = name}

\* The canvases created so far under `name`.
CanvasesOf(name) == {canvases[k] : k \in {n \in 1..Len(canvases) : canvases[n].name = name}}

\* The cell rect <<x0, y0, x1, y1>> of a draw call, x1 and y1 exclusive.
RectOf(d) == <<d.x0, d.y0, d.x0 + d.cw, d.y0 + d.ch>>

CanvasFirst == \A k \in Drawn : drawSeq[k].layer = "cell" => CanvasesOf(drawSeq[k].kind) # {}

Disjoint(r, q) == r[3] <= q[1] \/ q[3] <= r[1] \/ r[4] <= q[2] \/ q[4] <= r[2]

Inside(r, c) == 0 <= r[1] /\ 0 <= r[2] /\ r[3] <= c.w /\ r[4] <= c.h

RECURSIVE AreaSum(_)
AreaSum(K) ==
    IF K = {} THEN 0
    ELSE LET k == CHOOSE n \in K : TRUE
         IN  drawSeq[k].cw * drawSeq[k].ch + AreaSum(K \ {k})

\* C5: for every atlas the cell rects of the generated cells are pairwise
\* disjoint and lie inside the canvas, and once the atlas is complete their
\* areas add up to the canvas area: disjoint rects inside the canvas whose areas
\* sum to its area cover every pixel exactly once.
C5_GridPartition ==
    \A name \in Atlases :
        /\ \A a, b \in CellsOf(name) :
                a # b => Disjoint(RectOf(drawSeq[a]), RectOf(drawSeq[b]))
        /\ \A a \in CellsOf(name) : \A c \in CanvasesOf(name) :
                Inside(RectOf(drawSeq[a]), c)
        /\ \A c \in CanvasesOf(name) :
                (\E k \in 1..Len(saved) : saved[k] = name) =>
                    AreaSum(CellsOf(name)) = c.w * c.h

\* C5 witness: the terrain atlas has been saved with all its twenty cells.
C5_Witness ==
    /\ \E k \in 1..Len(saved) : saved[k] = "terrain_atlas"
    /\ Cardinality(CellsOf("terrain_atlas")) = 20
    /\ Cardinality(CellsOf("creature_atlas")) = 64

\* A primitive's bounding box lies within rect r (x1, y1 of r exclusive).
BoxInside(b, r) == r[1] <= b[1] /\ r[2] <= b[2] /\ b[3] < r[3] /\ b[4] < r[4]

\* C6: every primitive drawn for an atlas cell has its bounding box inside that
\* cell's own rect [x0, x0 + cellWidth) x [y0, y0 + cellHeight), and so inside
\* the canvas.
C6_StaysInCell ==
    \A k \in Drawn :
        LET d == drawSeq[k] IN
        d.layer = "cell" =>
            /\ \A n \in 1..Len(d.prims) : BoxInside(d.prims[n].bbox, RectOf(d))
            /\ \A c \in CanvasesOf(d.kind) : Inside(RectOf(d), c)

\* C6 witness: a Walk frame with its bounce ellipse has been drawn, and so has
\* the Forest tile with its dot.
C6_Witness ==
    /\ \E k \in CellsOf("creature_atlas") : Len(drawSeq[k].prims) = 4
    /\ \E k \in CellsOf("terrain_atlas") : Len(drawSeq[k].prims) = 2


\* A cell request outside the grid its canvas declares: its row or its column
\* index is not below the number of rows or columns the canvas holds.
OutOfGrid(d) ==
    \E c \in CanvasesOf(d.kind) :
        d.x0 \div d.cw >= c.w \div d.cw \/ d.y0 \div d.ch >= c.h \div d.ch

---------------------------------------------------------------------------
(* Properties of the projection. *)

\* The draw calls that project a world point.
Projected == {k \in Drawn : drawSeq[k].layer \in {"world", "ui", "particle"}
                            /\ drawSeq[k].proj # <<>>}

\* C8: every screen point the render uses is exactly
\* ((x - y) * 0.5 + 800, (x + y) * 0.25 + 200) of its world point (here in
\* quarter pixels), and two projections of the same world point, whatever was
\* drawn between them, are the same screen point.
C8_Projection ==
    /\ \A k \in Projected :
            /\ drawSeq[k].sx = 2 * (drawSeq[k].x - drawSeq[k].y) + 4 * 800
            /\ drawSeq[k].sy = (drawSeq[k].x + drawSeq[k].y) + 4 * 200
    /\ \A a, b \in Projected :
            (drawSeq[a].x = drawSeq[b].x /\ drawSeq[a].y = drawSeq[b].y)
                => (drawSeq[a].sx = drawSeq[b].sx /\ drawSeq[a].sy = drawSeq[b].sy)

\* C8 witness: the creature at (400, 400) and the hearts anchored to it have
\* both been projected, with draws in between, to screen point (800, 400).
C8_Witness ==
    \E a, b \in Projected :
        /\ a + 1 < b
        /\ drawSeq[a].kind = "creature" /\ drawSeq[b].kind = "hearts"
        /\ drawSeq[a].x = 400 /\ drawSeq[a].y = 400
        /\ drawSeq[b].sx = 4 * 800 /\ drawSeq[b].sy = 4 * 400

\* C9: during one render world_to_iso is evaluated exactly once for each placed
\* entity: every drawn world entity's point has been projected, and no world
\* point is projected a second time.
C9_ProjectedOnce ==
    /\ \A k \in Drawn :
            drawSeq[k].layer = "world" =>
                \E n \in 1..Len(projLog) : projLog[n] = <<drawSeq[k].x, drawSeq[k].y>>
    /\ \A m, n \in 1..Len(projLog) : projLog[m] = projLog[n] => m = n

---------------------------------------------------------------------------
(* Properties of the shape dispatch. *)

\* The tags for which the shape code of each call has a branch of its own.
Branches(d) ==
    IF d.layer = "world" /\ d.kind = "resource" THEN {"berries", "water", "cactus"}
    ELSE IF d.layer = "world" /\ d.kind = "creature" THEN {"herbivore", "carnivore"}
    ELSE IF d.layer = "cell" /\ d.kind = "particle_atlas"
         THEN {"spark", "smoke", "dust", "bubble", "star", "heart"}
    ELSE IF d.layer = "image" /\ d.cw = 32
         THEN {"food", "droplet", "lightning", "people", "moon", "speech", "gear",
               "exclamation"}
    ELSE {d.tag}

\* The condition was reported: some printed line names the tag.
Reported(tag) == \E n \in 1..Len(out) : out[n] = "unknown: " \o tag

\* C10: a call whose tag has no shape branch still draws a (default) shape and
\* the condition is reported; it is never silently left out.
C10_DefaultShape ==
    \A k \in Drawn :
        drawSeq[k].tag \notin Branches(drawSeq[k]) =>
            /\ drawSeq[k].prims # <<>>
            /\ Reported(drawSeq[k].tag)

\* C10, the part about omission alone: a call whose tag has no shape branch
\* still draws at least one primitive.
C10_NeverOmitted ==
    \A k \in Drawn :
        drawSeq[k].tag \notin Branches(drawSeq[k]) => drawSeq[k].prims # <<>>

---------------------------------------------------------------------------
(* Properties of a whole run. *)

SavedSet == {saved[k] : k \in 1..Len(saved)}

\* The files each script's generators are to write, by generator.
Outputs(sc) ==
    IF sc = "sprites"
    THEN {"creature_atlas", "terrain_atlas"}
         \cup {lists.particle_sprites[k][1] : k \in 1..Len(lists.particle_sprites)}
    ELSE IF sc = "ui"
    THEN {"health_bar_bg", "health_bar_fill", "health_bar_frame", "emoji_atlas",
          "particle_atlas"}
         \cup {lists.bubbles[k][1] : k \in 1..Len(lists.bubbles)}
         \cup {lists.icons[k][1] : k \in 1..Len(lists.icons)}
    ELSE {"cartoon_isometric_mockup.png"}

\* The file a canvas is saved to: the figure goes to the mockup's png, every
\* PIL image to the file of its own name.
FileOf(name) == IF name = "fig" THEN "cartoon_isometric_mockup.png" ELSE name

\* The output of the generator whose save raised: its canvas exists, unsaved.
FailedOutputs == {FileOf(canvases[k].name) : k \in 1..Len(canvases)} \ SavedSet

\* C11: a failure inside one generator aborts only that generation: when the
\* run has ended on a failure, every other generator of the same main() has run
\* and saved its output, whether it is called before or after the failing one.
C11_FailureIsolated ==
    pc = "aborted" => \A f \in Outputs(script) \ FailedOutputs : f \in SavedSet

\* C11, the half that the code does keep: whatever was saved before the failure
\* stays saved, so generators called before the failing one are unaffected.
C11_EarlierOutputsKept ==
    [][\A f \in SavedSet : f \in SavedSet']_vars

\* The canvas a draw call paints on.
CanvasOfDraw(d) == IF d.layer \in {"cell", "image"} THEN d.kind ELSE "fig"

\* C12: in every run each canvas is saved at most once and no draw call is
\* issued on a canvas whose file has been saved; a run that completes has saved
\* every canvas it created.
C12_SavedOnceAfterDrawing ==
    /\ [](\A m, n \in 1..Len(saved) : saved[m] = saved[n] => m = n)
    /\ [](pc = "done" =>
            \A k \in 1..Len(canvases) : FileOf(canvases[k].name) \in SavedSet)
    /\ [][\A k \in (Len(drawSeq) + 1)..Len(drawSeq') :
            FileOf(CanvasOfDraw(drawSeq'[k])) \notin SavedSet]_vars

\* C12 witness: the sprite script has completed with its two atlases and six
\* particle images saved.
C12_Witness ==
    /\ script = "sprites" /\ pc = "done"
    /\ Len(saved) = 8 /\ Len(canvases) = 8
    /\ Cardinality(CellsOf("creature_atlas")) = 64

---------------------------------------------------------------------------
(* Properties of the scene's shape generators. *)

RngStates == 0..(RngMod - 1)

\* C13: the primitives draw_iso_tile, draw_creature and draw_resource emit are
\* a function of the entity's point and traits alone: whatever state the global
\* random generator is in when the call is made (however many values earlier
\* draws consumed), the call emits the same primitives, so a second render of
\* the same manifest emits the identical sequence.
C13_ShapesIgnoreGlobalState ==
    \A k \in Drawn :
        LET d == drawSeq[k] IN
        d.layer = "world" =>
            /\ d.kind = "tile" =>
                    \A s \in RngStates :
                        draw_iso_tile(d.x, d.y, d.color, d.tag, s).prims = d.prims
            /\ d.kind = "resource" =>
                    \A s \in RngStates : draw_resource(d.x, d.y, d.tag, s).prims = d.prims
            /\ d.kind = "creature" =>
                    \A n \in 1..Len(lists.creatures) :
                        LET c == lists.creatures[n] IN
                        (c[1] = d.x /\ c[2] = d.y) =>
                            \A s \in RngStates :
                                draw_creature(c[1], c[2], c[3], c[4], c[5], s).prims = d.prims

---------------------------------------------------------------------------
(* Properties of the placement order. *)

\* The tiles a pair of nested range loops places, outer loop over x.
TileGrid(xs, ys) ==
    Concat([a \in 1..Len(xs) |-> [b \in 1..Len(ys) |-> <<"tile", xs[a], ys[b]>>]])

\* The manifest: every world entity the script places, in the order in which
\* the script's text places it.
Manifest ==
    TileGrid(Range(100, 600, 64), Range(100, 600, 64))
    \o TileGrid(Range(700, 1200, 64), Range(100, 600, 64))
    \o TileGrid(Range(600, 700, 64), Range(100, 600, 64))
    \o [k \in 1..Len(tree_positions) |->
            <<"tree", tree_positions[k][1], tree_positions[k][2]>>]
    \o [k \in 1..Len(creatures) |-> <<"creature", creatures[k][1], creatures[k][2]>>]
    \o [k \in 1..Len(resources) |-> <<"resource", resources[k][1], resources[k][2]>>]

\* The place of an entity in the manifest.
ManifestPos ==
    [e \in {Manifest[k] : k \in 1..Len(Manifest)} |->
        CHOOSE k \in 1..Len(Manifest) : Manifest[k] = e]

PosOf(d) == ManifestPos[<<d.kind, d.x, d.y>>]

\* C14: two world entities with equal depth key x + y are drawn in the order
\* in which the manifest (the script's placements) lists them.
C14_TiesKeepInsertionOrder ==
    \A a, b \in Drawn :
        (/\ drawSeq[a].layer = "world"
         /\ drawSeq[b].layer = "world"
         /\ DepthKey(drawSeq[a]) = DepthKey(drawSeq[b])
         /\ a < b) => PosOf(drawSeq[a]) < PosOf(drawSeq[b])

\* C14 witness: the tiles (100, 164) and (164, 100), of equal depth key 264,
\* and the equal-keyed tree (250, 400) and creature (300, 350) are all drawn.
C14_Witness ==
    /\ \E a, b \in Drawn :
        /\ drawSeq[a].layer = "world" /\ drawSeq[b].layer = "world"
        /\ drawSeq[a].x = 100 /\ drawSeq[a].y = 164
        /\ drawSeq[b].x = 164 /\ drawSeq[b].y = 100
    /\ \E a, b \in Drawn :
        /\ drawSeq[a].layer = "world" /\ drawSeq[b].layer = "world"
        /\ drawSeq[a].kind = "tree" /\ drawSeq[a].x = 250 /\ drawSeq[a].y = 400
        /\ drawSeq[b].kind = "creature" /\ drawSeq[b].x = 300 /\ drawSeq[b].y = 350

---------------------------------------------------------------------------
(* Order independence of the atlas cells. *)

\* The pixels a primitive may write are those of its inclusive bounding box.
Covers(b, p) ==
    /\ b.bbox[1] <= p[1] /\ p[1] <= b.bbox[3]
    /\ b.bbox[2] <= p[2] /\ p[2] <= b.bbox[4]

\* The pixels two primitives may both write: the intersection of their boxes.
Shared(b, c) ==
    LET x0 == IF b.bbox[1] >= c.bbox[1] THEN b.bbox[1] ELSE c.bbox[1]
        y0 == IF b.bbox[2] >= c.bbox[2] THEN b.bbox[2] ELSE c.bbox[2]
        x1 == IF b.bbox[3] <= c.bbox[3] THEN b.bbox[3] ELSE c.bbox[3]
        y1 == IF b.bbox[4] <= c.bbox[4] THEN b.bbox[4] ELSE c.bbox[4]
    IN  {<<x, y>> : x \in x0..x1, y \in y0..y1}

\* The primitives of the cells order[1], order[2], ..., in the order in which
\* they are drawn, each tagged with the cell it belongs to.
Strokes(order) ==
    Concat([m \in 1..Len(order) |->
              [n \in 1..Len(drawSeq[order[m]].prims) |->
                  [cell |-> order[m], no |-> n, box |-> drawSeq[order[m]].prims[n]]]])

\* The content of pixel p after the cells of `order` are drawn onto a blank
\* canvas: the last primitive written over p (a draw call on an RGBA image
\* replaces the pixel), or blank.
Content(order, p) ==
    LET st   == Strokes(order)
        hits == {n \in 1..Len(st) : Covers(st[n].box, p)}
    IN  IF hits = {} THEN <<"blank">>
        ELSE <<st[Max(hits)].cell, st[Max(hits)].no>>

\* The pixels both cells may write; everywhere else Content is the same for
\* the two orders by definition.
Contested(a, b) ==
    UNION {Shared(drawSeq[a].prims[m], drawSeq[b].prims[n]) :
             m \in 1..Len(drawSeq[a].prims), n \in 1..Len(drawSeq[b].prims)}

\* C15: any two cells of an atlas can be drawn in either order with the same
\* canvas content; every permutation of the cells is a product of such
\* exchanges, so the atlas does not depend on the order of generation.
C15_OrderIndependent ==
    \A name \in Atlases :
        \A a, b \in CellsOf(name) :
            a < b => \A p \in Contested(a, b) :
                        Content(<<a, b>>, p) = Content(<<b, a>>, p)

\* C15 witness: all 64 creature cells and all 16 emoji cells are drawn, with
\* the four primitives of a bouncing walk frame among them.
C15_Witness ==
    \/ /\ Cardinality(CellsOf("creature_atlas")) = 64
       /\ \E k \in CellsOf("creature_atlas") : Len(drawSeq[k].prims) = 4
       /\ "creature_atlas" \in SavedSet
    \/ /\ Cardinality(CellsOf("emoji_atlas")) = 16
       /\ "emoji_atlas" \in SavedSet

---------------------------------------------------------------------------
(* The shade of the biome tiles. *)

\* The tiles the forest loop (x below 600) and the desert loop have drawn.
ForestTiles ==
    {k \in Drawn : drawSeq[k].kind = "tile" /\ drawSeq[k].tag = "grass" /\ drawSeq[k].x < 600}

DesertTiles == {k \in Drawn : drawSeq[k].kind = "tile" /\ drawSeq[k].tag = "desert"}

\* C16: for every tile of the forest loop and of the desert loop (x + y) % 128
\* is not 0, so every forest tile is drawn with '#4a8b54' and every desert
\* tile with '#fad643'.
C16_AlternateShadeNeverTaken ==
    /\ \A k \in ForestTiles :
        /\ (drawSeq[k].x + drawSeq[k].y) % 128 # 0
        /\ drawSeq[k].color = "#4a8b54"
    /\ \A k \in DesertTiles :
        /\ (drawSeq[k].x + drawSeq[k].y) % 128 # 0
        /\ drawSeq[k].color = "#fad643"

\* C16 witness: all 8 x 8 forest tiles and all 8 x 8 desert tiles are drawn,
\* the corner tiles (548, 548) and (1148, 548) among them.
C16_Witness ==
    /\ Cardinality(ForestTiles) = 64
    /\ Cardinality(DesertTiles) = 64
    /\ \E k \in ForestTiles : drawSeq[k].x = 548 /\ drawSeq[k].y = 548
    /\ \E k \in DesertTiles : drawSeq[k].x = 1148 /\ drawSeq[k].y = 548

---------------------------------------------------------------------------
(* The 4 x 4 grid of the emoji and particle atlases. *)

GridAtlases == {"emoji_atlas", "particle_atlas"}

\* The <<row, col>> pairs of the cells drawn on an atlas.
SlotsOf(name) == {<<drawSeq[k].cat, drawSeq[k].var>> : k \in CellsOf(name)}

\* C17: idx -> (idx // 4, idx % 4) sends the 16 entries of the emoji and of the
\* particle list to pairwise distinct cells inside the 128 x 128 canvas; no
\* entry draws into another entry's cell, and once the atlas is saved every
\* cell of the 4 x 4 grid has received exactly one entry.
C17_GridBijection ==
    \A name \in GridAtlases :
        /\ \A c \in CanvasesOf(name) : c.w = 128 /\ c.h = 128
        /\ \A a \in CellsOf(name) :
            LET d == drawSeq[a] IN
            /\ d.cat \in 0..3 /\ d.var \in 0..3
            /\ RectOf(d) = <<32 * d.var, 32 * d.cat, 32 * d.var + 32, 32 * d.cat + 32>>
            /\ \A b \in CellsOf(name) \ {a} :
                /\ <<d.cat, d.var>> # <<drawSeq[b].cat, drawSeq[b].var>>
                /\ \A n \in 1..Len(d.prims) :
                    LET q == d.prims[n].bbox
                    IN  Disjoint(<<q[1], q[2], q[3] + 1, q[4] + 1>>, RectOf(drawSeq[b]))
        /\ name \in SavedSet =>
            /\ SlotsOf(name) = (0..3) \X (0..3)
            /\ Cardinality(CellsOf(name)) = 16

\* C17 witness: the particle atlas is saved with its 16 entries (the emoji
\* atlas was saved before it), the last entry in the last cell.
C17_Witness ==
    /\ "emoji_atlas" \in SavedSet /\ "particle_atlas" \in SavedSet
    /\ Cardinality(CellsOf("emoji_atlas")) = 16
    /\ \E k \in CellsOf("particle_atlas") :
        drawSeq[k].tag = "glow" /\ drawSeq[k].cat = 3 /\ drawSeq[k].var = 3

===========================================================================
